---- MODULE Spec2Model ----
(***************************************************************************)
(* Model of the DocJarvis consultation front end: the zustand consultation *)
(* stores (form store, voice store, audio store), the API client's stream  *)
(* reader and the useStreamingResponse hook, running against the session   *)
(* backend.  The backend is not part of the front-end sources; it is       *)
(* modelled from the specification (Srv* definitions).                     *)
(***************************************************************************)
EXTENDS Integers, Sequences, FiniteSets, TLC

VARIABLES version, st, ops, sessions, hook, overlaps, env, rd

vars == <<version, st, ops, sessions, hook, overlaps, env, rd>>

(* ------------------------------ bounds --------------------------------- *)
MaxQuestions == 2
MaxOps == 2
MaxSessions == 1
MaxLines == 3
MaxRead == 2
MaxOverlap == 1
ConcLines == 1
MaxStreams == 2

OpIds == 1..MaxOps
StreamIds == 1..MaxStreams
Answers == {"yes", "no"}
Versions == {"form", "voice", "audio"}

(* ------------------------------ values --------------------------------- *)
\* VALIDATION.MIN_AGE / MAX_AGE, and the ages a patient form can hold: the
\* initial one and one an age input with max 120 lets through
MIN_AGE == 1
MAX_AGE == 90
Ages == {30, 100}

initialPatientData == [age |-> 30, language |-> "en"]

\* the accepted domain of the patient data
ValidPatient(p) == p.age >= MIN_AGE /\ p.age <= MAX_AGE

\* text is a sequence of characters; '' is <<>>, a null text is NullText
NullText == <<"<null>">>
NoError == "none"
Undefined == "undefined"

QuestionNames == <<"q1", "q2", "q3", "q4">>
QuestionList(n) == SubSeq(QuestionNames, 1, n)

\* questions[k] of a JavaScript array (0-based, undefined when out of range)
QAt(qs, k) == IF k + 1 \in 1..Len(qs) THEN qs[k + 1] ELSE Undefined

TextChunks == {<<"a">>, <<"b">>}
JsonChunk == <<"{", "e", "}">>
DoneData == <<"[DONE]">>
LineAlphabet == TextChunks \cup {JsonChunk, DoneData}

Reads == UNION {[1..n -> LineAlphabet] : n \in 1..MaxRead}

\* JSON.parse(data) as { medication_english?: string }: the payload of a
\* chunk that is a JSON object carrying medication_english, else no parse
NoParse == <<"<noparse>">>
ParseEnglish(d) ==
    IF Len(d) >= 2 /\ d[1] = "{" /\ d[Len(d)] = "}"
    THEN SubSeq(d, 2, Len(d) - 1)
    ELSE NoParse

(* ------------------------- backend sessions ---------------------------- *)
NewSession(n) ==
    [questions |-> QuestionList(n), conversation |-> <<>>,
     current_question_index |-> 0, phase |-> "answering-questions",
     status |-> "active", medication |-> NullText, lock |-> FALSE,
     body |-> <<>>, pivot |-> NullText, initial_complaint |-> ""]

\* SessionState as returned by GET /sessions/{id}
NoSessionState ==
    [present |-> FALSE, questions |-> <<>>, conversation |-> <<>>,
     current_question_index |-> 0, medication |-> NullText,
     status |-> "none", initial_complaint |-> ""]

SessionSnapshot(s) ==
    [present |-> TRUE, questions |-> s.questions,
     conversation |-> s.conversation,
     current_question_index |-> s.current_question_index,
     medication |-> s.medication, status |-> s.status,
     initial_complaint |-> s.initial_complaint]

NoResp ==
    [status |-> "none", sid |-> 0, current_index |-> 0,
     is_complete |-> FALSE, should_generate_recommendations |-> FALSE,
     next_question |-> Undefined,
     session |-> NoSessionState, questions |-> <<>>,
     transcribed_text |-> "", response_audio |-> FALSE]

ErrResp(e) == [NoResp EXCEPT !.status = e]

(* ------------------------------ store ---------------------------------- *)
\* initial state of the store (union of the fields of the three versions)
initialStore ==
    [sessionId |-> 0, sessionState |-> NoSessionState, complaint |-> "",
     patientData |-> initialPatientData,
     phase |-> "patient-info", currentQuestionIndex |-> 0,
     isLoading |-> FALSE, isStreaming |-> FALSE, isProcessing |-> FALSE,
     isProcessingAudio |-> FALSE, isListening |-> FALSE,
     isComplete |-> FALSE, error |-> NoError,
     conversationHistory |-> <<>>, currentQuestion |-> Undefined,
     streamedMedication |-> <<>>, streamedMedicationEnglish |-> NullText,
     medicationRecommendations |-> <<>>, medicationEnglish |-> NullText,
     isSpeaking |-> FALSE, questions |-> <<>>]

(* --------------------------- invocations ------------------------------- *)
\* one record per invocation of an async store action: its position (pc),
\* the values it captured from get() and the last response it received;
\* pre is the recommendation text the store held when its stream was to
\* start (completeDiagnosis empties the text before it starts the stream);
\* stale records that the store was reset while the invocation was running
IdleOp ==
    [kind |-> "none", pc |-> "idle", call |-> "none", sid |-> 0, idx |-> 0,
     hist |-> <<>>, cq |-> Undefined, ans |-> "", resp |-> NoResp,
     sub |-> NoResp, outcome |-> "none", nlines |-> 0, term |-> "none",
     sawDone |-> FALSE, accepted |-> FALSE, netFailed |-> FALSE,
     cb |-> FALSE, base |-> 0, cancelled |-> FALSE, after |-> FALSE,
     fresh |-> FALSE, at |-> 0, pre |-> <<>>,
     patient |-> initialPatientData, stale |-> FALSE]

\* the invocation sends a request and suspends on it
Request(r, c) == [r EXCEPT !.pc = "req", !.call = c]
\* the backend answers a request
Respond(r, rsp) == [r EXCEPT !.pc = "resp", !.resp = rsp]
\* a request that throws on a transport failure only (no `!response.ok`
\* check): the broken variant the properties are tried against
Threw_TransportOnly(r) == r.status = "NetworkError"
\* ApiClient.request throws on a transport failure and on a response that
\* is not ok
Threw(r) == r.status # "ok"
Awaiting(o, c) == ops[o].pc = "req" /\ ops[o].call = c
Resumed(o, k, c) == ops[o].kind = k /\ ops[o].pc = "resp" /\ ops[o].call = c

InFlight(o) == ops[o].pc \notin {"idle", "done"}
\* an invocation its caller still waits for (a caller that cancelled the
\* stream of an invocation no longer waits for it)
Pending(o) == InFlight(o) /\ ~ops[o].cancelled
\* a new invocation takes the lowest free slot (the slots are only names)
\* env.limit is the number of invocations the caller lets overlap (1 when
\* it awaits each call before the next), env.lines the number of lines a
\* recommendation stream carries, env.step the step the PatientForm
\* component shows; overlaps counts the overlapping calls
Idle(o) ==
    /\ ~InFlight(o)
    /\ \A p \in OpIds : p < o => InFlight(p)
    /\ Cardinality({p \in OpIds : Pending(p)}) < env.limit
    /\ (\E p \in OpIds : InFlight(p)) => overlaps < MaxOverlap

SetOp(o, r) == ops' = [ops EXCEPT ![o] = r]
\* a finished invocation keeps only what it did
Finish(r, out) ==
    [IdleOp EXCEPT !.pc = "done", !.kind = r.kind, !.outcome = out,
                   !.idx = r.idx, !.accepted = r.accepted,
                   !.netFailed = r.netFailed, !.term = r.term,
                   !.sawDone = r.sawDone, !.base = r.base,
                   !.sid = r.sid,
                   !.nlines = r.nlines, !.cancelled = r.cancelled,
                   !.after = r.after, !.fresh = r.fresh,
                   !.at = r.at]
\* a call of a store action starts invocation o with record r
Invoke(o, r) ==
    /\ ops' = [p \in OpIds |->
                 IF p = o
                 THEN [r EXCEPT
                         !.at = st.currentQuestionIndex,
                         !.pre = IF r.kind = "complete" THEN <<>>
                                 ELSE st.streamedMedication,
                         !.after = \E q \in OpIds :
                                     ops[q].cancelled /\ ops[q].nlines >= 1,
                         !.fresh = /\ r.sid \in 1..Len(sessions)
                                   /\ r.idx = sessions[r.sid]
                                                 .current_question_index]
                 ELSE IF InFlight(p) THEN ops[p] ELSE IdleOp]
    /\ overlaps' = IF \E p \in OpIds : InFlight(p) THEN overlaps + 1
                   ELSE overlaps

\* state of a component using useStreamingResponse: the two useState
\* values, the controller abortControllerRef points to (0: null) and one
\* record per startStream invocation (its controller's signal, its local
\* fullResponse, the callbacks it has delivered)
IdleStream ==
    [pc |-> "idle", aborted |-> FALSE, fullResponse |-> <<>>, nlines |-> 0,
     term |-> "none", events |-> 0]

initialHook ==
    [isStreaming |-> FALSE, response |-> <<>>, current |-> 0,
     streams |-> [h \in StreamIds |-> IdleStream]]

\* the recommendation stream on the wire and the reader that consumes it:
\* the lines the backend sends, the characters not read yet, whether the
\* caller passed the side-channel callback, which of the caller's callbacks
\* throws, whether the call has returned, and what the reader has delivered
\* (the onChunk arguments, the side-channel value, the number of onComplete
\* and onError invocations and of data callbacks made after one of these)
NoWire ==
    [lines |-> <<>>, rest |-> <<>>, cb |-> FALSE, throws |-> "none",
     pc |-> "reading", chunks |-> <<>>, english |-> NullText,
     nComplete |-> 0, nError |-> 0, late |-> 0]

Init ==
    /\ version \in Versions
    /\ st = initialStore
    /\ ops = [o \in OpIds |-> IdleOp]
    /\ sessions = <<>>
    /\ hook = initialHook
    /\ overlaps = 0
    /\ env = [limit |-> 1, lines |-> MaxLines, step |-> "details"]
    /\ rd = NoWire

\* the same program with callers that do not await a call before the next
InitConc ==
    /\ version \in Versions
    /\ st = initialStore
    /\ ops = [o \in OpIds |-> IdleOp]
    /\ sessions = <<>>
    /\ hook = initialHook
    /\ overlaps = 0
    /\ env = [limit |-> MaxOps, lines |-> ConcLines, step |-> "details"]
    /\ rd = NoWire

InitCancel ==
    /\ version \in Versions
    /\ st = initialStore
    /\ ops = [o \in OpIds |-> IdleOp]
    /\ sessions = <<>>
    /\ hook = initialHook
    /\ overlaps = 0
    /\ env = [limit |-> 1, lines |-> ConcLines, step |-> "details"]
    /\ rd = NoWire

\* a component that streams through the useStreamingResponse hook
InitHook ==
    /\ version = "hook"
    /\ st = initialStore
    /\ ops = [o \in OpIds |-> IdleOp]
    /\ sessions = <<>>
    /\ hook = initialHook
    /\ overlaps = 0
    /\ env = [limit |-> 1, lines |-> MaxLines, step |-> "details"]
    /\ rd = NoWire

(* ------------------- backend (modelled from the spec) ------------------ *)
\* any request may fail in transport or time out, with no backend effect
NetFail(o) ==
    /\ ops[o].pc = "req"
    /\ SetOp(o, [Respond(ops[o], ErrResp("NetworkError")) EXCEPT
                    !.netFailed = TRUE])
    /\ UNCHANGED <<version, rd, st, sessions, hook, overlaps, env>>

\* createSession: rejects patient data outside the accepted domain, else
\* allocates a session; the questions are generated from the complaint sent
\* with the creation request
SrvCreateSession(o) ==
    /\ Awaiting(o, "create")
    /\ IF ValidPatient(ops[o].patient)
       THEN /\ Len(sessions) < MaxSessions
            /\ \E n \in 1..MaxQuestions :
                 /\ sessions' = Append(sessions,
                                       [NewSession(n) EXCEPT
                                          !.initial_complaint = ops[o].ans])
                 /\ SetOp(o, Respond(ops[o],
                                     [NoResp EXCEPT !.status = "ok",
                                         !.sid = Len(sessions) + 1,
                                         !.questions = QuestionList(n)]))
       ELSE /\ SetOp(o, Respond(ops[o], ErrResp("InvalidPatientInfo")))
            /\ UNCHANGED sessions
    /\ UNCHANGED <<version, rd, st, hook, overlaps, env>>

\* session read-by-id
SrvGetSession(o) ==
    /\ Awaiting(o, "get") \/ Awaiting(o, "get_complete")
    /\ ops[o].sid \in 1..Len(sessions)
    /\ SetOp(o, Respond(ops[o], [NoResp EXCEPT !.status = "ok",
                   !.session = SessionSnapshot(sessions[ops[o].sid])]))
    /\ UNCHANGED <<version, rd, st, sessions, hook, overlaps, env>>

\* submitAnswer, validation: strict in-order index, phase, per-session lock
SubmitVerdict(s, idx) ==
    IF idx # s.current_question_index THEN "QuestionIndexOutOfRange"
    ELSE IF s.phase # "answering-questions" \/ s.status # "active"
         THEN "InvalidPhaseTransition"
    ELSE IF s.lock THEN "SessionBusy"
    ELSE "ok"

SrvSubmitAccept(o) ==
    /\ Awaiting(o, "submit") \/ Awaiting(o, "transcribe")
    /\ ops[o].sid \in 1..Len(sessions)
    /\ LET s == sessions[ops[o].sid]
           v == SubmitVerdict(s, ops[o].idx)
       IN IF v = "ok"
          THEN /\ sessions' = [sessions EXCEPT ![ops[o].sid].lock = TRUE]
               /\ SetOp(o, [ops[o] EXCEPT !.pc = "srv"])
          ELSE /\ SetOp(o, Respond(ops[o], ErrResp(v)))
               /\ UNCHANGED sessions
    /\ UNCHANGED <<version, rd, st, hook, overlaps, env>>

\* submitAnswer, commit: the turn is appended and the index advanced in
\* one step; completion is purely count-based
SrvSubmitCommit(o) ==
    /\ ops[o].pc = "srv" /\ ops[o].call \in {"submit", "transcribe"}
    /\ \E audio \in (IF ops[o].call = "transcribe" THEN BOOLEAN ELSE {FALSE}) :
       LET s == sessions[ops[o].sid]
           k == s.current_question_index
           done == k + 1 = Len(s.questions)
       IN /\ sessions' = [sessions EXCEPT ![ops[o].sid] =
                [s EXCEPT !.conversation =
                              Append(@, [question |-> QAt(s.questions, k),
                                         answer |-> ops[o].ans]),
                          !.current_question_index = k + 1,
                          !.phase = IF done THEN "generating-recommendation"
                                    ELSE @,
                          !.lock = FALSE]]
          /\ SetOp(o, [Respond(ops[o], [NoResp EXCEPT !.status = "ok",
                                      !.current_index = k + 1,
                                      !.is_complete = done,
                                      !.should_generate_recommendations =
                                          done,
                                      !.next_question =
                                          QAt(s.questions, k + 1),
                                      !.transcribed_text = ops[o].ans,
                                      !.response_audio = audio])
                         EXCEPT !.accepted = TRUE])
    /\ UNCHANGED <<version, rd, st, hook, overlaps, env>>

\* completeSession: valid only in generating-recommendation, under the lock
CompleteVerdict(s) ==
    IF s.phase # "generating-recommendation" \/ s.status # "active"
    THEN "InvalidPhaseTransition"
    ELSE IF s.lock THEN "SessionBusy"
    ELSE "ok"

SrvStreamAccept(o) ==
    /\ Awaiting(o, "stream")
    /\ ops[o].sid \in 1..Len(sessions)
    /\ LET s == sessions[ops[o].sid]
           v == CompleteVerdict(s)
       IN IF v = "ok"
          THEN /\ sessions' = [sessions EXCEPT ![ops[o].sid].lock = TRUE,
                                               ![ops[o].sid].body = <<>>,
                                               ![ops[o].sid].pivot = NullText]
               /\ SetOp(o, [ops[o] EXCEPT !.pc = "streaming"])
          ELSE /\ SetOp(o, Respond(ops[o], ErrResp(v)))
               /\ UNCHANGED sessions
    /\ UNCHANGED <<version, rd, st, hook, overlaps, env>>

\* the lines of a read that precede the sentinel
RECURSIVE BeforeDone(_)
BeforeDone(lines) ==
    IF lines = <<>> \/ Head(lines) = DoneData THEN <<>>
    ELSE <<Head(lines)>> \o BeforeDone(Tail(lines))

HasDone(lines) == \E i \in 1..Len(lines) : lines[i] = DoneData

\* the body text carried by a sequence of lines (the structured payload is
\* not body text)
RECURSIVE BodyOf(_)
BodyOf(lines) ==
    IF lines = <<>> THEN <<>>
    ELSE (IF ParseEnglish(Head(lines)) # NoParse THEN <<>> ELSE Head(lines))
         \o BodyOf(Tail(lines))

\* the side-channel value carried by a sequence of lines (the last one)
RECURSIVE PivotOf(_)
PivotOf(lines) ==
    IF lines = <<>> THEN NullText
    ELSE IF ParseEnglish(lines[Len(lines)]) # NoParse
         THEN ParseEnglish(lines[Len(lines)])
         ELSE PivotOf(SubSeq(lines, 1, Len(lines) - 1))

\* the backend's side of one read of the recommendation stream: it emits
\* lines; with the sentinel it commits the recommendation and completes
SrvEmit(s, lines) ==
    LET b == s.body \o BodyOf(BeforeDone(lines))
        e == IF PivotOf(BeforeDone(lines)) # NullText
             THEN PivotOf(BeforeDone(lines)) ELSE s.pivot
    IN IF HasDone(lines)
       THEN [s EXCEPT !.body = b, !.pivot = e, !.medication = b,
                      !.phase = "done", !.status = "completed",
                      !.lock = FALSE]
       ELSE [s EXCEPT !.body = b, !.pivot = e]

\* the generation fails or the connection closes: nothing is committed
SrvAbortStream(s) == [s EXCEPT !.lock = FALSE]

\* completeSession without streaming (POST /sessions/{id}/complete)
Recommendations == {<<"a">>, <<"b", "a">>}

SrvCompleteAccept(o) ==
    /\ Awaiting(o, "complete")
    /\ ops[o].sid \in 1..Len(sessions)
    /\ LET s == sessions[ops[o].sid]
           v == CompleteVerdict(s)
       IN IF v = "ok"
          THEN /\ sessions' = [sessions EXCEPT ![ops[o].sid].lock = TRUE]
               /\ SetOp(o, [ops[o] EXCEPT !.pc = "srv"])
          ELSE /\ SetOp(o, Respond(ops[o], ErrResp(v)))
               /\ UNCHANGED sessions
    /\ UNCHANGED <<version, rd, st, hook, overlaps, env>>

SrvCompleteCommit(o) ==
    /\ ops[o].pc = "srv" /\ ops[o].call = "complete"
    /\ \E m \in Recommendations :
         /\ sessions' = [sessions EXCEPT ![ops[o].sid] =
                [@ EXCEPT !.medication = m, !.phase = "done",
                          !.status = "completed", !.lock = FALSE]]
         /\ SetOp(o, Respond(ops[o], [NoResp EXCEPT !.status = "ok",
                                         !.session.medication = m]))
    /\ UNCHANGED <<version, rd, st, hook, overlaps, env>>

(* --------------- stream reader (api/client.ts) ------------------------- *)
\* the callbacks the stores pass to completeSessionStream
onChunk(s, chunk) ==
    [s EXCEPT !.streamedMedication = @ \o chunk]

onEnglishParaphrase(s, medicationEnglish) ==
    [s EXCEPT !.streamedMedicationEnglish = medicationEnglish]

\* an onComplete callback that sets nothing (broken variant)
onComplete_Silent(s, v) == s

\* synchronous part of onComplete: the form store's callback is async and
\* only issues a session read; the voice store's callback sets the flags
onComplete(s, v) ==
    IF v = "form" THEN s
    ELSE [s EXCEPT !.isComplete = TRUE, !.isProcessing = FALSE]

onError(s, v, msg) ==
    IF v = "form"
    THEN [s EXCEPT !.error = msg, !.isLoading = FALSE, !.isStreaming = FALSE]
    ELSE [s EXCEPT !.error = msg, !.isProcessing = FALSE]

\* one data line of a read: a structured chunk goes to the side-channel
\* callback when the caller passed one, anything else to onChunk
ConsumeLine(s, data, hasEnglishCb) ==
    IF ParseEnglish(data) # NoParse /\ hasEnglishCb
    THEN onEnglishParaphrase(s, ParseEnglish(data))
    ELSE onChunk(s, data)

\* the for loop over the lines of one read; stops at the sentinel
RECURSIVE ConsumeLines(_, _, _)
ConsumeLines(s, lines, hasEnglishCb) ==
    IF lines = <<>> \/ Head(lines) = DoneData THEN s
    ELSE ConsumeLines(ConsumeLine(s, Head(lines), hasEnglishCb),
                      Tail(lines), hasEnglishCb)

\* the invocation whose stream ended: the form store's onComplete awaits a
\* session read, every other ending finishes the invocation
AfterStream(r, v, term) ==
    IF term = "complete" /\ v = "form"
    THEN [Request(r, "get_complete") EXCEPT !.term = term]
    ELSE [Finish(r, IF r.kind = "submit" THEN "ok" ELSE term)
            EXCEPT !.term = term]

\* fetch rejected or answered with an HTTP error: onError
completeSessionStream_Rejected(o) ==
    /\ ops[o].pc = "resp" /\ ops[o].call = "stream"
    /\ st' = onError(st, version, ops[o].resp.status)
    /\ SetOp(o, AfterStream(ops[o], version, "error"))
    /\ UNCHANGED <<version, rd, sessions, hook, overlaps, env>>

\* reader.read() delivers a group of lines
completeSessionStream_Read(o) ==
    /\ ops[o].pc = "streaming" /\ ops[o].call = "stream"
    /\ \E lines \in Reads :
         /\ ops[o].nlines + Len(lines) <= env.lines
         /\ sessions' = [sessions EXCEPT ![ops[o].sid] = SrvEmit(@, lines)]
         /\ LET s1 == ConsumeLines(st, lines, ops[o].cb)
                r1 == [ops[o] EXCEPT !.nlines = @ + Len(lines),
                                     !.sawDone = HasDone(lines)]
            IN IF HasDone(lines)
               THEN /\ st' = onComplete(s1, version)
                    /\ SetOp(o, AfterStream(r1, version, "complete"))
               ELSE /\ st' = s1
                    /\ SetOp(o, r1)
    /\ UNCHANGED <<version, rd, hook, overlaps, env>>

\* reader.read() reports done: the loop is left and onComplete is called
completeSessionStream_Closed(o) ==
    /\ ops[o].pc = "streaming" /\ ops[o].call = "stream"
    /\ sessions' = [sessions EXCEPT ![ops[o].sid] = SrvAbortStream(@)]
    /\ st' = onComplete(st, version)
    /\ SetOp(o, AfterStream(ops[o], version, "complete"))
    /\ UNCHANGED <<version, rd, hook, overlaps, env>>

\* reader.read() rejects: onError
completeSessionStream_Failed(o) ==
    /\ ops[o].pc = "streaming" /\ ops[o].call = "stream"
    /\ sessions' = [sessions EXCEPT ![ops[o].sid] = SrvAbortStream(@)]
    /\ st' = onError(st, version, "NetworkError")
    /\ SetOp(o, [AfterStream(ops[o], version, "error") EXCEPT
                    !.netFailed = TRUE])
    /\ UNCHANGED <<version, rd, hook, overlaps, env>>

\* the caller gives up the stream of invocation o: completeSessionStream
\* takes no AbortSignal and hands out no handle, so nothing is aborted and
\* no callback is detached; the request is only recorded
cancelStream(o) ==
    /\ ops[o].call = "stream" /\ ops[o].pc \in {"req", "streaming"}
    /\ ~ops[o].cancelled
    /\ SetOp(o, [ops[o] EXCEPT !.cancelled = TRUE])
    /\ UNCHANGED <<version, rd, st, sessions, hook, overlaps, env>>

(* ----------------- form store (store/consultationStore.ts) ------------- *)
\* setPatientData({ age }) from the age input of the patient form, which is
\* shown before a consultation is started
setPatientData ==
    /\ st.phase = "patient-info" /\ st.sessionId = 0
    /\ env.step = "details"
    /\ \A o \in OpIds : ~InFlight(o)
    /\ \E age \in Ages \ {st.patientData.age} :
         st' = [st EXCEPT !.patientData.age = age]
    /\ UNCHANGED <<version, rd, ops, sessions, hook, overlaps, env>>

setComplaint ==
    /\ version = "form"
    /\ st.complaint = ""
    /\ st' = [st EXCEPT !.complaint = "c"]
    /\ UNCHANGED <<version, rd, ops, sessions, hook, overlaps, env>>

startConsultation_Call(o) ==
    /\ version = "form"
    /\ Idle(o)
    /\ IF st.complaint = ""
       THEN /\ st' = [st EXCEPT !.error = "Please describe your symptoms"]
            /\ UNCHANGED <<ops, overlaps>>
       ELSE /\ Len(sessions) < MaxSessions
            /\ st' = [st EXCEPT !.isLoading = TRUE, !.error = NoError]
            /\ Invoke(o, Request([IdleOp EXCEPT !.kind = "start",
                                    !.patient = st.patientData,
                                    !.ans = st.complaint], "create"))
    /\ UNCHANGED <<version, rd, sessions, hook, env>>

startConsultation_Resume(o) ==
    /\ version = "form"
    /\ ops[o].kind = "start" /\ ops[o].pc = "resp"
    /\ LET r == ops[o].resp IN
       IF Threw(r)
       THEN /\ st' = [st EXCEPT !.error = r.status, !.isLoading = FALSE]
            /\ SetOp(o, Finish(ops[o], r.status))
       ELSE IF ops[o].call = "create"
       THEN /\ SetOp(o, Request([ops[o] EXCEPT !.sid = r.sid], "get"))
            /\ UNCHANGED st
       ELSE /\ st' = [st EXCEPT !.sessionId = ops[o].sid,
                                !.sessionState = r.session,
                                !.phase = "questions",
                                !.currentQuestionIndex = 0,
                                !.isLoading = FALSE]
            /\ SetOp(o, Finish(ops[o], "ok"))
    /\ UNCHANGED <<version, rd, sessions, hook, overlaps, env>>

submitAnswer_Call(o) ==
    /\ version = "form"
    /\ Idle(o)
    /\ st.sessionId # 0 /\ st.sessionState.present
    /\ \E answer \in Answers :
         Invoke(o, Request([IdleOp EXCEPT !.kind = "submit",
                              !.sid = st.sessionId,
                              !.idx = st.currentQuestionIndex,
                              !.base = Len(st.sessionState.conversation),
                              !.ans = answer], "submit"))
    /\ st' = [st EXCEPT !.isLoading = TRUE, !.error = NoError]
    /\ UNCHANGED <<version, rd, sessions, hook, env>>

\* the catch block of submitAnswer
submitAnswer_Catch(s, msg) ==
    [s EXCEPT !.error = msg, !.isLoading = FALSE]

\* a commit that ends the interview whatever the response says (broken
\* variant)
submitAnswer_CommitEarly(s, response, updatedSession) ==
    [s EXCEPT !.sessionState = updatedSession, !.phase = "diagnosis",
              !.isLoading = FALSE]
\* the two set() calls after the session re-read
submitAnswer_Commit(s, response, updatedSession) ==
    IF response.is_complete
    THEN [s EXCEPT !.sessionState = updatedSession, !.phase = "diagnosis",
                   !.isLoading = FALSE]
    ELSE [s EXCEPT !.sessionState = updatedSession,
                   !.currentQuestionIndex = response.current_index,
                   !.isLoading = FALSE]

submitAnswer_Resume(o) ==
    /\ version = "form"
    /\ ops[o].kind = "submit" /\ ops[o].pc = "resp"
    /\ LET r == ops[o].resp IN
       IF Threw(r)
       THEN /\ st' = submitAnswer_Catch(st, r.status)
            /\ SetOp(o, Finish(ops[o], r.status))
       ELSE IF ops[o].call = "submit"
       THEN /\ SetOp(o, Request([ops[o] EXCEPT !.sub = r], "get"))
            /\ UNCHANGED st
       ELSE /\ st' = submitAnswer_Commit(st, ops[o].sub, r.session)
            /\ SetOp(o, Finish(ops[o], "ok"))
    /\ UNCHANGED <<version, rd, sessions, hook, overlaps, env>>

completeDiagnosis_Call(o) ==
    /\ version = "form"
    /\ Idle(o)
    /\ st.sessionId # 0
    /\ \E streaming \in BOOLEAN :
         /\ st' = [st EXCEPT !.isLoading = TRUE, !.isStreaming = streaming,
                             !.error = NoError, !.streamedMedication = <<>>]
         /\ Invoke(o, Request([IdleOp EXCEPT !.kind = "complete",
                                 !.sid = st.sessionId],
                             IF streaming THEN "stream" ELSE "complete"))
    /\ UNCHANGED <<version, rd, sessions, hook, env>>

\* the async onComplete callback after its session read; a failed read is
\* an unhandled rejection and sets nothing
completeDiagnosis_OnComplete(o) ==
    /\ version = "form"
    /\ Resumed(o, "complete", "get_complete")
    /\ LET r == ops[o].resp IN
       IF r.status = "ok"
       THEN /\ st' = [st EXCEPT !.sessionState = r.session,
                                !.phase = "prescription",
                                !.isLoading = FALSE, !.isStreaming = FALSE]
            /\ SetOp(o, Finish(ops[o], "complete"))
       ELSE /\ UNCHANGED st
            /\ SetOp(o, Finish(ops[o], r.status))
    /\ UNCHANGED <<version, rd, sessions, hook, overlaps, env>>

\* the non-streaming branch and the catch block of completeDiagnosis
completeDiagnosis_Resume(o) ==
    /\ version = "form"
    /\ ops[o].kind = "complete" /\ ops[o].pc = "resp"
    /\ ops[o].call \in {"complete", "get"}
    /\ LET r == ops[o].resp IN
       IF Threw(r)
       THEN /\ st' = [st EXCEPT !.error = r.status, !.isLoading = FALSE,
                                !.isStreaming = FALSE]
            /\ SetOp(o, Finish(ops[o], r.status))
       ELSE IF ops[o].call = "complete"
       THEN /\ SetOp(o, Request([ops[o] EXCEPT !.sub = r], "get"))
            /\ UNCHANGED st
       ELSE /\ st' = [st EXCEPT !.sessionState = r.session,
                        !.streamedMedication = ops[o].sub.session.medication,
                        !.phase = "prescription", !.isLoading = FALSE]
            /\ SetOp(o, Finish(ops[o], "complete"))
    /\ UNCHANGED <<version, rd, sessions, hook, overlaps, env>>

\* POST /prescription/{id}/generate: the prescription artifact is produced
\* for a completed session only
SrvGeneratePrescription(o) ==
    /\ Awaiting(o, "prescribe")
    /\ ops[o].sid \in 1..Len(sessions)
    /\ SetOp(o, Respond(ops[o],
                        IF sessions[ops[o].sid].status = "completed"
                        THEN [NoResp EXCEPT !.status = "ok"]
                        ELSE ErrResp("InvalidPhaseTransition")))
    /\ UNCHANGED <<version, rd, st, sessions, hook, overlaps, env>>

generatePrescription_Call(o) ==
    /\ version = "form"
    /\ Idle(o)
    /\ st.sessionId # 0
    /\ st' = [st EXCEPT !.isLoading = TRUE, !.error = NoError]
    /\ Invoke(o, Request([IdleOp EXCEPT !.kind = "prescription",
                            !.sid = st.sessionId], "prescribe"))
    /\ UNCHANGED <<version, rd, sessions, hook, env>>

generatePrescription_Resume(o) ==
    /\ version = "form"
    /\ Resumed(o, "prescription", "prescribe")
    /\ LET r == ops[o].resp IN
       IF Threw(r)
       THEN /\ st' = [st EXCEPT !.error = r.status, !.isLoading = FALSE]
            /\ SetOp(o, Finish(ops[o], r.status))
       ELSE /\ st' = [st EXCEPT !.phase = "complete", !.isLoading = FALSE]
            /\ SetOp(o, Finish(ops[o], "ok"))
    /\ UNCHANGED <<version, rd, sessions, hook, overlaps, env>>

setPhase(s, phase) == [s EXCEPT !.phase = phase]

\* PatientForm.handleSubmit of the form flow
handleSubmit ==
    /\ version = "form"
    /\ st.phase = "patient-info"
    /\ st' = setPhase(st, "complaint")
    /\ UNCHANGED <<version, rd, ops, sessions, hook, overlaps, env>>

\* useConsultation: the phases array, and phases.indexOf(store.phase)
phases ==
    <<"patient-info", "complaint", "questions", "diagnosis", "prescription",
      "complete">>

IndexOf(phase) ==
    IF \E i \in 1..Len(phases) : phases[i] = phase
    THEN (CHOOSE i \in 1..Len(phases) : phases[i] = phase) - 1
    ELSE -1

nextStep ==
    /\ version = "form"
    /\ IndexOf(st.phase) < Len(phases) - 1
    /\ st' = setPhase(st, phases[IndexOf(st.phase) + 2])
    /\ UNCHANGED <<version, rd, ops, sessions, hook, overlaps, env>>

previousStep ==
    /\ version = "form"
    /\ IndexOf(st.phase) > 0
    /\ st' = setPhase(st, phases[IndexOf(st.phase)])
    /\ UNCHANGED <<version, rd, ops, sessions, hook, overlaps, env>>

(* ----------------- backend endpoints of the voice stores --------------- *)
\* POST /diagnosis/questions: the request carries the complaint only, no
\* session id; it answers with a bounded, non-empty list of questions
SrvGenerateQuestions(o) ==
    /\ Awaiting(o, "questions")
    /\ \E n \in 1..MaxQuestions :
         SetOp(o, Respond(ops[o], [NoResp EXCEPT !.status = "ok",
                                      !.questions = QuestionList(n)]))
    /\ UNCHANGED <<version, rd, st, sessions, hook, overlaps, env>>

\* text-to-speech of the recommendation (speak-recommendations)
SrvSpeak(o) ==
    /\ Awaiting(o, "speak")
    /\ SetOp(o, Respond(ops[o], [NoResp EXCEPT !.status = "ok"]))
    /\ UNCHANGED <<version, rd, st, sessions, hook, overlaps, env>>

(* ----------------- voice store (utils/constants.ts 383-570) ------------ *)
\* PatientForm.handleConfirmDetails: an age outside 1..90 only raises a
\* toast, a valid one takes the form to its introduction step
handleConfirmDetails ==
    /\ version \in {"voice", "audio"}
    /\ env.step = "details"
    /\ env' = IF st.patientData.age < MIN_AGE \/ st.patientData.age > MAX_AGE
              THEN env
              ELSE [env EXCEPT !.step = "introduction"]
    /\ UNCHANGED <<version, rd, st, ops, sessions, hook, overlaps>>

\* called by PatientForm.onStartSpeaking, the button of the introduction
\* step
startVoiceConsultation_Call(o) ==
    /\ version \in {"voice", "audio"}
    /\ env.step = "introduction"
    /\ Idle(o)
    /\ Len(sessions) < MaxSessions
    /\ st' = [st EXCEPT !.isLoading = TRUE, !.error = NoError]
    /\ Invoke(o, Request([IdleOp EXCEPT !.kind = "start",
                            !.patient = st.patientData], "create"))
    /\ UNCHANGED <<version, rd, sessions, hook, env>>

startVoiceConsultation_Resume(o) ==
    /\ version \in {"voice", "audio"}
    /\ Resumed(o, "start", "create")
    /\ LET r == ops[o].resp IN
       IF Threw(r)
       THEN /\ st' = [st EXCEPT !.error = r.status, !.isLoading = FALSE]
            /\ SetOp(o, Finish(ops[o], r.status))
       ELSE /\ st' = [st EXCEPT !.sessionId = r.sid,
                        !.phase = "voice-consultation",
                        !.isLoading = FALSE,
                        !.conversationHistory = <<>>,
                        !.currentQuestionIndex =
                            IF version = "audio" THEN 0 ELSE @]
            /\ SetOp(o, Finish(ops[o], "ok"))
    /\ UNCHANGED <<version, rd, sessions, hook, overlaps, env>>

\* what the patient says when asked for the symptoms
Complaints == {"headache"}

\* updateInitialComplaint: patches sessionState when there is one, and
\* leaves a null sessionState null
updateInitialComplaint(s, complaint) ==
    IF s.sessionState.present
    THEN [s EXCEPT !.sessionState.initial_complaint = complaint]
    ELSE s

processInitialSymptoms_Call(o) ==
    /\ version = "voice"
    /\ Idle(o)
    /\ IF st.sessionId = 0
       THEN /\ Invoke(o, Finish([IdleOp EXCEPT !.kind = "initSymptoms"],
                                "No active session"))
            /\ UNCHANGED st
       ELSE /\ st' = [st EXCEPT !.isProcessing = TRUE, !.error = NoError]
            /\ \E symptoms \in Complaints :
                 Invoke(o, Request([IdleOp EXCEPT !.kind = "initSymptoms",
                                      !.sid = st.sessionId,
                                      !.ans = symptoms], "questions"))
    /\ UNCHANGED <<version, rd, sessions, hook, env>>

processInitialSymptoms_Resume(o) ==
    /\ version = "voice"
    /\ Resumed(o, "initSymptoms", "questions")
    /\ LET r == ops[o].resp IN
       IF Threw(r)
       THEN /\ st' = [st EXCEPT !.error = r.status, !.isProcessing = FALSE]
            /\ SetOp(o, Finish(ops[o], r.status))
       ELSE /\ st' = updateInitialComplaint(
                       [st EXCEPT !.questions = r.questions,
                                  !.currentQuestion = QAt(r.questions, 0),
                                  !.currentQuestionIndex = 0,
                                  !.isProcessing = FALSE],
                       ops[o].ans)
            /\ SetOp(o, Finish(ops[o], "ok"))
    /\ UNCHANGED <<version, rd, sessions, hook, overlaps, env>>

\* a question that passes the `!currentQuestion` guard
Truthy(q) == q # Undefined

submitVoiceAnswer_Call(o) ==
    /\ version = "voice"
    /\ Idle(o)
    /\ st.sessionId # 0 /\ Truthy(st.currentQuestion)
    /\ \E answer \in Answers :
         Invoke(o, Request([IdleOp EXCEPT !.kind = "submit",
                              !.sid = st.sessionId,
                              !.idx = st.currentQuestionIndex,
                              !.cq = st.currentQuestion,
                              !.hist = Append(st.conversationHistory,
                                         [question |-> st.currentQuestion,
                                          answer |-> answer]),
                              !.base = Len(st.conversationHistory),
                              !.ans = answer, !.cb = TRUE], "submit"))
    /\ st' = [st EXCEPT !.isListening = FALSE, !.isProcessing = TRUE,
                        !.error = NoError]
    /\ UNCHANGED <<version, rd, sessions, hook, env>>

\* a catch block that moves on to the next question (broken variant)
submitVoiceAnswer_CatchAdvancing(s, msg) ==
    [s EXCEPT !.error = msg, !.isProcessing = FALSE,
              !.currentQuestionIndex = @ + 1]
\* the catch block of submitVoiceAnswer
submitVoiceAnswer_Catch(s, msg) ==
    [s EXCEPT !.error = msg, !.isProcessing = FALSE]

\* set() of the is_complete branch, before the recommendation stream
submitVoiceAnswer_Complete(s, updatedHistory) ==
    [s EXCEPT !.conversationHistory = updatedHistory,
              !.currentQuestion = Undefined, !.isProcessing = TRUE]

\* set() of the else branch, after the session re-read
submitVoiceAnswer_Next(s, updatedHistory, response, updatedSession) ==
    [s EXCEPT !.conversationHistory = updatedHistory,
              !.currentQuestion =
                  QAt(updatedSession.questions, response.current_index),
              !.currentQuestionIndex = response.current_index,
              !.isProcessing = FALSE]

submitVoiceAnswer_Resume(o) ==
    /\ version = "voice"
    /\ ops[o].kind = "submit" /\ ops[o].pc = "resp"
    /\ ops[o].call \in {"submit", "get"}
    /\ LET r == ops[o].resp IN
       IF Threw(r)
       THEN /\ st' = submitVoiceAnswer_Catch(st, r.status)
            /\ SetOp(o, Finish(ops[o], r.status))
       ELSE IF ops[o].call = "submit" /\ r.is_complete
       THEN /\ st' = submitVoiceAnswer_Complete(st, ops[o].hist)
            /\ SetOp(o, Request(ops[o], "stream"))
       ELSE IF ops[o].call = "submit"
       THEN /\ SetOp(o, Request([ops[o] EXCEPT !.sub = r], "get"))
            /\ UNCHANGED st
       ELSE /\ st' = submitVoiceAnswer_Next(st, ops[o].hist, ops[o].sub,
                                            r.session)
            /\ SetOp(o, Finish(ops[o], "ok"))
    /\ UNCHANGED <<version, rd, sessions, hook, overlaps, env>>

(* ----------------- audio store (utils/constants.ts 631-856) ------------ *)
InitialQuestion == "Please describe your main symptoms"

\* playResponseAudio: isSpeaking is set while the audio plays
playResponseAudio_End(o) ==
    /\ version = "audio"
    /\ ops[o].pc = "playing"
    /\ st' = [st EXCEPT !.isSpeaking = FALSE]
    /\ SetOp(o, Finish(ops[o], "ok"))
    /\ UNCHANGED <<version, rd, sessions, hook, overlaps, env>>

processInitialAudio_Call(o) ==
    /\ version = "audio"
    /\ Idle(o)
    /\ IF st.sessionId = 0
       THEN /\ Invoke(o, Finish([IdleOp EXCEPT !.kind = "initAudio"],
                                "No active session"))
            /\ UNCHANGED st
       ELSE /\ st' = [st EXCEPT !.isProcessingAudio = TRUE, !.error = NoError]
            /\ \E transcript \in Answers :
                 Invoke(o, Request([IdleOp EXCEPT !.kind = "initAudio",
                                      !.sid = st.sessionId, !.idx = 0,
                                      !.ans = transcript], "transcribe"))
    /\ UNCHANGED <<version, rd, sessions, hook, env>>

processInitialAudio_Resume(o) ==
    /\ version = "audio"
    /\ Resumed(o, "initAudio", "transcribe")
    /\ LET r == ops[o].resp IN
       IF Threw(r)
       THEN /\ st' = [st EXCEPT !.error = r.status,
                                !.isProcessingAudio = FALSE]
            /\ SetOp(o, Finish(ops[o], r.status))
       ELSE /\ st' = [st EXCEPT
                        !.conversationHistory =
                            <<[question |-> InitialQuestion,
                               answer |-> r.transcribed_text]>>,
                        !.currentQuestion = r.next_question,
                        !.currentQuestionIndex = r.current_index,
                        !.isProcessingAudio = FALSE,
                        !.isSpeaking = r.response_audio \/ @]
            /\ SetOp(o, IF r.response_audio
                        THEN [ops[o] EXCEPT !.pc = "playing"]
                        ELSE Finish(ops[o], "ok"))
    /\ UNCHANGED <<version, rd, sessions, hook, overlaps, env>>

submitAudioAnswer_Call(o) ==
    /\ version = "audio"
    /\ Idle(o)
    /\ st.sessionId # 0 /\ Truthy(st.currentQuestion)
    /\ \E transcript \in Answers :
         Invoke(o, Request([IdleOp EXCEPT !.kind = "submitAudio",
                              !.sid = st.sessionId,
                              !.idx = st.currentQuestionIndex,
                              !.cq = st.currentQuestion,
                              !.hist = st.conversationHistory,
                              !.base = Len(st.conversationHistory),
                              !.ans = transcript], "transcribe"))
    /\ st' = [st EXCEPT !.isProcessingAudio = TRUE, !.error = NoError]
    /\ UNCHANGED <<version, rd, sessions, hook, env>>

\* a history that keeps the new turn only (broken variant)
AudioHistory_Replacing(r) ==
    <<[question |-> r.cq, answer |-> r.resp.transcribed_text]>>
\* updatedHistory of submitAudioAnswer
AudioHistory(r) ==
    Append(r.hist, [question |-> r.cq, answer |-> r.resp.transcribed_text])

submitAudioAnswer_Resume(o) ==
    /\ version = "audio"
    /\ Resumed(o, "submitAudio", "transcribe")
    /\ LET r == ops[o].resp IN
       IF Threw(r)
       THEN /\ st' = [st EXCEPT !.error = r.status,
                                !.isProcessingAudio = FALSE]
            /\ SetOp(o, Finish(ops[o], r.status))
       ELSE IF r.should_generate_recommendations
       THEN /\ st' = [st EXCEPT !.conversationHistory = AudioHistory(ops[o]),
                                !.currentQuestion = Undefined,
                                !.isProcessingAudio = FALSE,
                                !.isProcessing = TRUE]
            /\ SetOp(o, Request(ops[o], "complete"))
       ELSE /\ st' = [st EXCEPT !.conversationHistory = AudioHistory(ops[o]),
                                !.currentQuestion = r.next_question,
                                !.currentQuestionIndex = ops[o].idx + 1,
                                !.isProcessingAudio = FALSE,
                                !.isSpeaking = r.response_audio \/ @]
            /\ SetOp(o, IF r.response_audio
                        THEN [ops[o] EXCEPT !.pc = "playing"]
                        ELSE Finish(ops[o], "ok"))
    /\ UNCHANGED <<version, rd, sessions, hook, overlaps, env>>

\* the recommendation step of submitAudioAnswer: completeSession, then the
\* spoken recommendation (its failure is only logged), then isComplete
submitAudioAnswer_Recommend(o) ==
    /\ version = "audio"
    /\ ops[o].kind = "submitAudio" /\ ops[o].pc = "resp"
    /\ ops[o].call \in {"complete", "speak"}
    /\ LET r == ops[o].resp IN
       IF ops[o].call = "speak"
       THEN /\ st' = [st EXCEPT !.isComplete = TRUE]
            /\ SetOp(o, Finish(ops[o], "ok"))
       ELSE IF Threw(r)
       THEN /\ st' = [st EXCEPT !.error = r.status, !.isProcessing = FALSE,
                                !.isProcessingAudio = FALSE]
            /\ SetOp(o, Finish(ops[o], r.status))
       ELSE /\ st' = [st EXCEPT
                        !.medicationRecommendations = r.session.medication,
                        !.medicationEnglish = <<"e">>,
                        !.isProcessing = FALSE]
            /\ SetOp(o, Request(ops[o], "speak"))
    /\ UNCHANGED <<version, rd, sessions, hook, overlaps, env>>

(* ------------- useStreamingResponse (hooks/useStreamingResponse.ts) ---- *)
\* abortControllerRef.current?.abort()
AbortCurrent(hk) ==
    IF hk.current = 0 THEN hk
    ELSE [hk EXCEPT !.streams[hk.current].aborted = TRUE]

Streaming(h) == hook.streams[h].pc \in {"fetch", "reading"}

\* the for loop of startStream over the lines of one read: every data line
\* before the sentinel is appended to fullResponse
RECURSIVE Concat(_)
Concat(lines) ==
    IF lines = <<>> THEN <<>> ELSE Head(lines) \o Concat(Tail(lines))

startStream_Call(h) ==
    /\ hook.streams[h].pc = "idle"
    /\ \A g \in StreamIds : g < h => hook.streams[g].pc # "idle"
    /\ hook' = [AbortCurrent(hook) EXCEPT
                   !.current = h, !.isStreaming = TRUE, !.response = <<>>,
                   !.streams[h].pc = "fetch"]
    /\ UNCHANGED <<version, rd, st, ops, sessions, overlaps, env>>

\* fetch resolves: a response that is not ok (or has no body) is thrown
\* and reaches onError
startStream_Fetched(h) ==
    /\ hook.streams[h].pc = "fetch" /\ ~hook.streams[h].aborted
    /\ \E ok \in BOOLEAN :
         hook' = IF ok THEN [hook EXCEPT !.streams[h].pc = "reading"]
                 ELSE [hook EXCEPT !.isStreaming = FALSE,
                                   !.streams[h].pc = "done",
                                   !.streams[h].term = "error",
                                   !.streams[h].events = @ + 1]
    /\ UNCHANGED <<version, rd, st, ops, sessions, overlaps, env>>

startStream_Read(h) ==
    /\ hook.streams[h].pc = "reading" /\ ~hook.streams[h].aborted
    /\ \E lines \in Reads :
         /\ hook.streams[h].nlines + Len(lines) <= env.lines
         /\ LET sm == hook.streams[h]
                chunks == BeforeDone(lines)
                full == sm.fullResponse \o Concat(chunks)
                sm1 == [sm EXCEPT !.fullResponse = full,
                                  !.nlines = @ + Len(lines),
                                  !.events = @ + Len(chunks)]
                hk1 == [hook EXCEPT !.response =
                                       IF chunks = <<>> THEN @ ELSE full]
            IN IF HasDone(lines)
               THEN hook' = [hk1 EXCEPT
                               !.isStreaming = FALSE,
                               !.streams[h] =
                                   [sm1 EXCEPT !.pc = "done",
                                               !.term = "complete",
                                               !.events = @ + 1]]
               ELSE hook' = [hk1 EXCEPT !.streams[h] = sm1]
    /\ UNCHANGED <<version, rd, st, ops, sessions, overlaps, env>>

\* reader.read() reports done: the loop is left and onComplete is called
startStream_Closed(h) ==
    /\ hook.streams[h].pc = "reading" /\ ~hook.streams[h].aborted
    /\ hook' = [hook EXCEPT !.isStreaming = FALSE,
                            !.streams[h].pc = "done",
                            !.streams[h].term = "complete",
                            !.streams[h].events = @ + 1]
    /\ UNCHANGED <<version, rd, st, ops, sessions, overlaps, env>>

\* fetch or reader.read() rejects with a transport error: onError
startStream_Failed(h) ==
    /\ Streaming(h) /\ ~hook.streams[h].aborted
    /\ hook' = [hook EXCEPT !.isStreaming = FALSE,
                            !.streams[h].pc = "done",
                            !.streams[h].term = "error",
                            !.streams[h].events = @ + 1]
    /\ UNCHANGED <<version, rd, st, ops, sessions, overlaps, env>>

\* the signal was aborted: the pending fetch or read rejects with an
\* AbortError, which the catch block swallows
startStream_Aborted(h) ==
    /\ Streaming(h) /\ hook.streams[h].aborted
    /\ hook' = [hook EXCEPT !.streams[h].pc = "done",
                            !.streams[h].term = "aborted"]
    /\ UNCHANGED <<version, rd, st, ops, sessions, overlaps, env>>

stopStream(hk) == [AbortCurrent(hk) EXCEPT !.isStreaming = FALSE]

hookStop ==
    /\ hook' = stopStream(hook)
    /\ hook' # hook
    /\ UNCHANGED <<version, rd, st, ops, sessions, overlaps, env>>

hookReset ==
    /\ hook' = [stopStream(hook) EXCEPT !.response = <<>>]
    /\ hook' # hook
    /\ UNCHANGED <<version, rd, st, ops, sessions, overlaps, env>>

NextHook ==
    \/ \E h \in StreamIds : startStream_Call(h)
    \/ \E h \in StreamIds : startStream_Fetched(h)
    \/ \E h \in StreamIds : startStream_Read(h)
    \/ \E h \in StreamIds : startStream_Closed(h)
    \/ \E h \in StreamIds : startStream_Failed(h)
    \/ \E h \in StreamIds : startStream_Aborted(h)
    \/ hookStop
    \/ hookReset

SpecHook == InitHook /\ [][NextHook]_vars

Next ==
    \/ \E o \in OpIds : NetFail(o)
    \/ \E o \in OpIds : SrvCreateSession(o)
    \/ \E o \in OpIds : SrvGetSession(o)
    \/ \E o \in OpIds : SrvSubmitAccept(o)
    \/ \E o \in OpIds : SrvSubmitCommit(o)
    \/ \E o \in OpIds : SrvStreamAccept(o)
    \/ \E o \in OpIds : SrvCompleteAccept(o)
    \/ \E o \in OpIds : SrvCompleteCommit(o)
    \/ \E o \in OpIds : completeSessionStream_Rejected(o)
    \/ \E o \in OpIds : completeSessionStream_Read(o)
    \/ \E o \in OpIds : completeSessionStream_Closed(o)
    \/ \E o \in OpIds : completeSessionStream_Failed(o)
    \/ setPatientData
    \/ handleConfirmDetails
    \/ setComplaint
    \/ \E o \in OpIds : startConsultation_Call(o)
    \/ \E o \in OpIds : startConsultation_Resume(o)
    \/ \E o \in OpIds : submitAnswer_Call(o)
    \/ \E o \in OpIds : submitAnswer_Resume(o)
    \/ \E o \in OpIds : completeDiagnosis_Call(o)
    \/ \E o \in OpIds : completeDiagnosis_OnComplete(o)
    \/ \E o \in OpIds : completeDiagnosis_Resume(o)
    \/ \E o \in OpIds : SrvGenerateQuestions(o)
    \/ \E o \in OpIds : SrvSpeak(o)
    \/ \E o \in OpIds : startVoiceConsultation_Call(o)
    \/ \E o \in OpIds : startVoiceConsultation_Resume(o)
    \/ \E o \in OpIds : processInitialSymptoms_Call(o)
    \/ \E o \in OpIds : processInitialSymptoms_Resume(o)
    \/ \E o \in OpIds : submitVoiceAnswer_Call(o)
    \/ \E o \in OpIds : submitVoiceAnswer_Resume(o)
    \/ \E o \in OpIds : playResponseAudio_End(o)
    \/ \E o \in OpIds : processInitialAudio_Call(o)
    \/ \E o \in OpIds : processInitialAudio_Resume(o)
    \/ \E o \in OpIds : submitAudioAnswer_Call(o)
    \/ \E o \in OpIds : submitAudioAnswer_Resume(o)
    \/ \E o \in OpIds : submitAudioAnswer_Recommend(o)

Spec == Init /\ [][Next]_vars
SpecConc == InitConc /\ [][Next]_vars

\* the same program with a caller that awaits each call but may give up a
\* recommendation stream it started
NextCancel ==
    \/ Next
    \/ \E o \in OpIds : cancelStream(o)

SpecCancel == InitCancel /\ [][NextCancel]_vars

\* reset of the three stores: each sets the fields it lists
resetStore(s, v) ==
    IF v = "form"
    THEN [s EXCEPT !.sessionId = 0, !.sessionState = NoSessionState,
                   !.patientData = initialPatientData, !.complaint = "",
                   !.phase = "patient-info", !.currentQuestionIndex = 0,
                   !.isLoading = FALSE, !.isStreaming = FALSE,
                   !.error = NoError, !.streamedMedication = <<>>]
    ELSE IF v = "voice"
    THEN [s EXCEPT !.sessionId = 0, !.sessionState = NoSessionState,
                   !.patientData = initialPatientData,
                   !.phase = "patient-info", !.currentQuestionIndex = 0,
                   !.isLoading = FALSE, !.isProcessing = FALSE,
                   !.isListening = FALSE, !.isSpeaking = FALSE,
                   !.isComplete = FALSE, !.error = NoError,
                   !.conversationHistory = <<>>,
                   !.currentQuestion = Undefined,
                   !.streamedMedication = <<>>,
                   !.streamedMedicationEnglish = NullText]
    ELSE [s EXCEPT !.sessionId = 0, !.sessionState = NoSessionState,
                   !.patientData = initialPatientData,
                   !.phase = "patient-info", !.currentQuestionIndex = 0,
                   !.isLoading = FALSE, !.isProcessing = FALSE,
                   !.isListening = FALSE, !.isSpeaking = FALSE,
                   !.isComplete = FALSE, !.error = NoError,
                   !.conversationHistory = <<>>,
                   !.currentQuestion = Undefined,
                   !.medicationRecommendations = <<>>,
                   !.medicationEnglish = NullText, !.questions = <<>>,
                   !.isProcessingAudio = FALSE]

\* New Consultation (VoiceConsultation.handleNewConsultation,
\* PrescriptionCard.handleNewConsultation): reset(), at any moment; the
\* patient form is mounted again at its first step; reset() reaches no
\* invocation that is still running
reset ==
    /\ st # initialStore \/ env.step # "details"
    /\ st' = resetStore(st, version)
    /\ env' = [env EXCEPT !.step = "details"]
    /\ ops' = [o \in OpIds |->
                 IF InFlight(o) THEN [ops[o] EXCEPT !.stale = TRUE]
                 ELSE ops[o]]
    /\ UNCHANGED <<version, rd, sessions, hook, overlaps>>

\* the same program with a user who may press New Consultation
NextReset ==
    \/ Next
    \/ reset

SpecReset == InitCancel /\ [][NextReset]_vars

\* POST /diagnosis/questions answered with an empty list: the generative
\* model gave no question
SrvGenerateQuestions_Empty(o) ==
    /\ Awaiting(o, "questions")
    /\ SetOp(o, Respond(ops[o], [NoResp EXCEPT !.status = "ok",
                                    !.questions = <<>>]))
    /\ UNCHANGED <<version, rd, st, sessions, hook, overlaps, env>>

\* the same program with a questions endpoint that may answer with no
\* question
NextEmpty ==
    \/ Next
    \/ \E o \in OpIds : SrvGenerateQuestions_Empty(o)

SpecEmpty == InitCancel /\ [][NextEmpty]_vars

\* the form flow of the application: the patient form, the prescription card
\* and a component that steps through the phases with useConsultation
NextNav ==
    \/ Next
    \/ handleSubmit
    \/ nextStep
    \/ previousStep
    \/ \E o \in OpIds : SrvGeneratePrescription(o)
    \/ \E o \in OpIds : generatePrescription_Call(o)
    \/ \E o \in OpIds : generatePrescription_Resume(o)

SpecNav == InitCancel /\ [][NextNav]_vars

\* a step of an invocation that is running: a collaborator answers its
\* request (with a result or an error) or its continuation runs
Progress ==
    /\ NextNav
    /\ \E o \in OpIds : InFlight(o) /\ ops'[o] # ops[o]

\* the form and voice flows with collaborators that always answer and an
\* event loop that runs every continuation that is ready; the user is not
\* required to make a call
SpecBusy == InitCancel /\ [][NextNav]_vars /\ WF_vars(Progress)

\* one consultation carried through with responsive collaborators: the
\* caller awaits each call, starts the consultation once (retrying a start
\* that did not give a session), asks for the questions once, answers while a
\* question is presented and requests the streamed recommendation when the
\* interview is over; no request fails and the recommendation stream sends
\* its sentinel within env.lines lines
InitLive ==
    /\ version \in {"form", "voice"}
    /\ st = initialStore
    /\ ops = [o \in OpIds |-> IdleOp]
    /\ sessions = <<>>
    /\ hook = initialHook
    /\ overlaps = 0
    /\ env = [limit |-> 1, lines |-> MaxLines, step |-> "details"]
    /\ rd = NoWire

NextLive ==
    \/ \E o \in OpIds : SrvCreateSession(o)
    \/ \E o \in OpIds : SrvGetSession(o)
    \/ \E o \in OpIds : SrvSubmitAccept(o)
    \/ \E o \in OpIds : SrvSubmitCommit(o)
    \/ \E o \in OpIds : SrvStreamAccept(o)
    \/ \E o \in OpIds : SrvGenerateQuestions(o)
    \/ \E o \in OpIds :
          /\ completeSessionStream_Read(o)
          /\ ops'[o].pc = "streaming" => ops'[o].nlines < env.lines
    \/ handleConfirmDetails
    \/ setComplaint
    \/ \E o \in OpIds : st.sessionId = 0 /\ startConsultation_Call(o)
    \/ \E o \in OpIds : startConsultation_Resume(o)
    \/ \E o \in OpIds : st.phase = "questions" /\ submitAnswer_Call(o)
    \/ \E o \in OpIds : submitAnswer_Resume(o)
    \/ \E o \in OpIds :
          /\ st.phase = "diagnosis"
          /\ completeDiagnosis_Call(o)
          /\ ops'[o].call = "stream"
    \/ \E o \in OpIds : completeDiagnosis_OnComplete(o)
    \/ \E o \in OpIds : st.sessionId = 0 /\ startVoiceConsultation_Call(o)
    \/ \E o \in OpIds : startVoiceConsultation_Resume(o)
    \/ \E o \in OpIds : st.questions = <<>> /\ processInitialSymptoms_Call(o)
    \/ \E o \in OpIds : processInitialSymptoms_Resume(o)
    \/ \E o \in OpIds : submitVoiceAnswer_Call(o)
    \/ \E o \in OpIds : submitVoiceAnswer_Resume(o)

\* the event loop runs every continuation that is ready, the collaborators
\* answer every request and the caller makes the next call of the flow
SpecLive == InitLive /\ [][NextLive]_vars /\ WF_vars(NextLive)

(* ------------- the stream reader at the level of characters ------------ *)
MaxWire == 2

\* the streams the backend may send
Streams == UNION {[1..n -> LineAlphabet] : n \in 1..MaxWire}

\* 'data: ', the sentinel and a line as it is written on the wire
DataPrefix == <<"d", "a", "t", "a", ":", " ">>
DoneChars == <<"[", "D", "O", "N", "E", "]">>
CharsOf(data) == IF data = DoneData THEN DoneChars ELSE data
WireLine(data) == DataPrefix \o CharsOf(data) \o <<"\n">>

RECURSIVE WireOf(_)
WireOf(lines) ==
    IF lines = <<>> THEN <<>>
    ELSE WireLine(Head(lines)) \o WireOf(Tail(lines))

\* decoder.decode(value).split('\n')
RECURSIVE Split(_)
Split(text) ==
    IF \A i \in 1..Len(text) : text[i] # "\n" THEN <<text>>
    ELSE LET i == CHOOSE i \in 1..Len(text) :
                     /\ text[i] = "\n"
                     /\ \A j \in 1..(i - 1) : text[j] # "\n"
         IN <<SubSeq(text, 1, i - 1)>>
            \o Split(SubSeq(text, i + 1, Len(text)))

\* line.startsWith(p)
StartsWith(line, p) == Len(line) >= Len(p) /\ SubSeq(line, 1, Len(p)) = p

\* the for loop over the lines of one read: lines without the prefix are
\* skipped, the sentinel calls onComplete and returns, a structured chunk
\* goes to the side-channel callback when there is one, anything else to
\* onChunk
\* the callbacks a caller may pass that throws from one of them
Throwers == {"none", "onChunk", "onComplete"}

\* one of the terminal callbacks has been invoked
Terminated(r) == r.nComplete + r.nError > 0

\* the catch block: whatever was thrown inside the try block reaches onError
CatchBlock(r) == [r EXCEPT !.nError = @ + 1, !.pc = "returned"]

\* onComplete() inside the try block, followed by the return
CallOnComplete(r) ==
    LET r1 == [r EXCEPT !.nComplete = @ + 1]
    IN IF r.throws = "onComplete" THEN CatchBlock(r1)
       ELSE [r1 EXCEPT !.pc = "returned"]

\* onChunk(data) or onEnglishParaphrase(...) inside the try block
CallData(r, r1) ==
    LET r2 == [r1 EXCEPT !.late = IF Terminated(r) THEN @ + 1 ELSE @]
    IN IF r.throws = "onChunk" THEN CatchBlock(r2) ELSE r2

RECURSIVE ReadLines(_, _)
ReadLines(r, lines) ==
    IF lines = <<>> \/ r.pc # "reading" THEN r
    ELSE LET line == Head(lines)
             data == SubSeq(line, Len(DataPrefix) + 1, Len(line))
         IN IF ~StartsWith(line, DataPrefix)
            THEN ReadLines(r, Tail(lines))
            ELSE IF data = DoneChars
            THEN CallOnComplete(r)
            ELSE IF ParseEnglish(data) # NoParse /\ r.cb
            THEN ReadLines(
                     CallData(r, [r EXCEPT !.english = ParseEnglish(data)]),
                     Tail(lines))
            ELSE ReadLines(
                     CallData(r, [r EXCEPT !.chunks = Append(@, data)]),
                     Tail(lines))

\* a reader whose every read is one whole line, up to the end of the body
RECURSIVE ReadEach(_, _)
ReadEach(r, lines) ==
    IF r.pc # "reading" THEN r
    ELSE IF lines = <<>> THEN CallOnComplete(r)
    ELSE ReadEach(ReadLines(r, Split(WireLine(Head(lines)))), Tail(lines))

\* completeSessionStream / startStream reading a body that the transport
\* cuts into reads wherever it likes
InitSplit ==
    /\ version = "reader"
    /\ st = initialStore
    /\ ops = [o \in OpIds |-> IdleOp]
    /\ sessions = <<>>
    /\ hook = initialHook
    /\ overlaps = 0
    /\ env = [limit |-> 1, lines |-> MaxLines, step |-> "details"]
    /\ \E lines \in Streams, cb \in BOOLEAN, throws \in Throwers :
         rd = [NoWire EXCEPT !.lines = lines, !.rest = WireOf(lines),
                             !.cb = cb, !.throws = throws]

\* reader.read() delivers the next k characters
reader_Read ==
    /\ rd.pc = "reading" /\ rd.rest # <<>>
    /\ \E k \in 1..Len(rd.rest) :
         rd' = [ReadLines(rd, Split(SubSeq(rd.rest, 1, k))) EXCEPT
                   !.rest = SubSeq(rd.rest, k + 1, Len(rd.rest))]
    /\ UNCHANGED <<version, st, ops, sessions, hook, overlaps, env>>

\* reader.read() reports done: the loop is left and onComplete is called
reader_Done ==
    /\ rd.pc = "reading" /\ rd.rest = <<>>
    /\ rd' = CallOnComplete(rd)
    /\ UNCHANGED <<version, st, ops, sessions, hook, overlaps, env>>

\* fetch or reader.read() rejects
reader_Failed ==
    /\ rd.pc = "reading"
    /\ rd' = CatchBlock(rd)
    /\ UNCHANGED <<version, st, ops, sessions, hook, overlaps, env>>

NextSplit == reader_Read \/ reader_Done \/ reader_Failed

SpecSplit == InitSplit /\ [][NextSplit]_vars

(* ------------------------------ properties ----------------------------- *)
\* the conversation the store holds, and the number of questions it knows
Conversation(s) ==
    IF version = "form" THEN s.sessionState.conversation
    ELSE s.conversationHistory

SubmitKinds == {"submit", "submitAudio", "initAudio"}
MutatingKinds == SubmitKinds \cup {"initSymptoms", "complete"}

SubmitWaiting(o) ==
    ops[o].pc = "req" /\ ops[o].call \in {"submit", "transcribe"}

\* C1: an answer submitted with an index other than the session's current
\* index is answered with QuestionIndexOutOfRange and changes nothing in the
\* session; the store's call fails with that error and leaves its
\* conversation and its currentQuestionIndex as they were
C1_OutOfOrderRejected ==
    [][\A o \in OpIds :
         /\ ( /\ SubmitWaiting(o)
              /\ ops[o].idx # sessions[ops[o].sid].current_question_index
              /\ ops'[o].pc # "req" )
            => /\ ops'[o].resp.status
                     \in {"QuestionIndexOutOfRange", "NetworkError"}
               /\ sessions' = sessions
         /\ ( /\ ops[o].kind \in SubmitKinds
              /\ ops[o].pc = "resp"
              /\ ops[o].resp.status = "QuestionIndexOutOfRange"
              /\ ops'[o].pc # "resp" )
            => /\ ops'[o].pc = "done"
               /\ ops'[o].outcome = "QuestionIndexOutOfRange"
               /\ Conversation(st') = Conversation(st)
               /\ st'.currentQuestionIndex = st.currentQuestionIndex
               /\ st'.error = "QuestionIndexOutOfRange"]_vars

C1_Witness ==
    \E o \in OpIds :
        /\ ops[o].pc = "done" /\ ops[o].kind \in SubmitKinds
        /\ ops[o].outcome = "QuestionIndexOutOfRange"
        /\ ops[o].idx # sessions[ops[o].sid].current_question_index

\* C2: after every submitAnswer call, accepted (the last question
\* included) or failed, the conversation has exactly currentQuestionIndex
\* turns
C2_LengthIsIndex ==
    \A o \in OpIds :
        (ops[o].pc = "done" /\ ops[o].kind \in SubmitKinds)
        => Len(Conversation(st)) = st.currentQuestionIndex

\* C3: currentQuestionIndex stays within 0..questions.length; an accepted
\* answer advances it by exactly one and a rejected or failed one leaves it
QuestionCount ==
    IF version = "form" THEN Len(st.sessionState.questions)
    ELSE IF version = "voice" THEN Len(st.questions)
    ELSE IF st.sessionId = 0 THEN 0
    ELSE Len(sessions[st.sessionId].questions)

C3_IndexAdvancesByOne ==
    /\ st.currentQuestionIndex \in 0..QuestionCount
    /\ \A o \in OpIds :
         ( /\ ops[o].pc = "done" /\ ops[o].kind \in SubmitKinds
           /\ ~ops[o].netFailed )
         => st.currentQuestionIndex =
                IF ops[o].accepted THEN ops[o].at + 1 ELSE ops[o].at

\* two finished submitAnswer calls of the same session that ran
\* concurrently, with no third call beside them, each with the index that
\* was current when it was made, and met no transport failure
ConcurrentPair(o1, o2) ==
    /\ o1 # o2
    /\ \A o3 \in OpIds \ {o1, o2} : ops[o3].pc = "idle"
    /\ ops[o1].pc = "done" /\ ops[o2].pc = "done"
    /\ ops[o1].kind \in SubmitKinds /\ ops[o2].kind \in SubmitKinds
    /\ ops[o1].sid = ops[o2].sid
    /\ ops[o1].idx = ops[o2].idx
    /\ ops[o1].fresh /\ ops[o2].fresh
    /\ ~ops[o1].netFailed /\ ~ops[o2].netFailed

\* C4: of two concurrent submitAnswer calls with the same index exactly one
\* succeeds, the other fails with SessionBusy or QuestionIndexOutOfRange,
\* and the conversation gains exactly one turn
C4_ExactlyOneAccepted ==
    \A o1, o2 \in OpIds :
        ConcurrentPair(o1, o2)
        => /\ ops[o1].accepted # ops[o2].accepted
           /\ ops[o1].accepted
              => /\ ops[o1].outcome = "ok"
                 /\ ops[o2].outcome
                       \in {"SessionBusy", "QuestionIndexOutOfRange"}
                 /\ Len(sessions[ops[o1].sid].conversation) = ops[o1].idx + 1
                 /\ Len(Conversation(st)) = ops[o1].base + 1

C4_Witness ==
    \E o1, o2 \in OpIds :
        /\ ConcurrentPair(o1, o2)
        /\ ops[o1].outcome = "ok"
        /\ ops[o2].outcome = "SessionBusy"

\* C5: at most one mutating operation (generateQuestions, submitAnswer,
\* completeSession) is in flight at any moment
C5_OneMutatingInFlight ==
    Cardinality({o \in OpIds : InFlight(o) /\ ops[o].kind \in MutatingKinds})
        <= 1

\* a recommendation stream of invocation o that ended with the sentinel
StreamCompleted(o) ==
    ops[o].term = "complete" /\ ops[o].sawDone /\ ops[o].nlines >= 1

\* C6: when a stream that carried a structured payload among its text
\* chunks completes, the body is the concatenation of the text chunks only
\* and a caller that listens to the side-channel holds the payload
C6_BodyExcludesPayload ==
    \A o \in OpIds :
        (StreamCompleted(o) /\ ops[o].pc # "done")
        => /\ st.streamedMedication = sessions[ops[o].sid].body
           /\ (ops[o].cb /\ sessions[ops[o].sid].pivot # NullText)
              => st.streamedMedicationEnglish = sessions[ops[o].sid].pivot

\* C7: at every point of a stream the accumulated text is the concatenation,
\* in arrival order, of exactly the non-structured chunks received so far
C7_RunningTextIsChunks ==
    \A o \in OpIds :
        (ops[o].call = "stream" /\ ops[o].pc = "streaming")
        => st.streamedMedication = sessions[ops[o].sid].body

\* C8: a completion event is emitted only after the sentinel, and the store
\* shows the consultation complete only when the session is completed
C8_CompletionOnlyAfterSentinel ==
    /\ \A o \in OpIds : ops[o].term = "complete" => ops[o].sawDone
    /\ (st.isComplete \/ st.phase = "prescription")
       => /\ st.sessionId # 0
          /\ sessions[st.sessionId].status = "completed"

\* C9: once its caller has cancelled a stream, the stream delivers no chunk,
\* completion or failure event and the store's state no longer changes by it
C9_NothingAfterCancel ==
    [][\A o \in OpIds :
         (ops[o].cancelled /\ InFlight(o) /\ ops'[o] # ops[o])
         => /\ st' = st
            /\ ops'[o].term = ops[o].term]_vars

\* C10: a completeSession call made after a stream was cancelled past its
\* first chunk succeeds on its own, and the final text is the text of the
\* second stream only
C10_RetryAfterCancel ==
    \A o \in OpIds :
        ( /\ ops[o].kind = "complete" /\ ops[o].after
          /\ ops[o].pc = "done" /\ ~ops[o].netFailed )
        => /\ ops[o].outcome = "complete"
           /\ st.phase = "prescription"
           /\ st.streamedMedication = st.sessionState.medication

\* C11: a processInitialSymptoms call made when the questions are already
\* set fails with InvalidPhaseTransition, whatever its argument, and leaves
\* the questions, currentQuestionIndex and the conversation of the first
\* call
C11_SecondGenerateRejected ==
    [][\A o \in OpIds :
         ( /\ Resumed(o, "initSymptoms", "questions")
           /\ st.questions # <<>>
           /\ ops[o].resp.status # "NetworkError"
           /\ ops'[o].pc = "done" )
         => /\ ops'[o].outcome = "InvalidPhaseTransition"
            /\ st'.questions = st.questions
            /\ st'.currentQuestionIndex = st.currentQuestionIndex
            /\ Conversation(st') = Conversation(st)]_vars

\* the questions the store holds
Questions(s) ==
    IF version = "form" THEN s.sessionState.questions ELSE s.questions

\* the store shows its session finished and the session is completed
Terminal ==
    /\ st.sessionId # 0
    /\ sessions[st.sessionId].status = "completed"
    /\ st.isComplete \/ st.phase = "prescription"

\* C12: once the session is completed it stays completed, and no later call
\* (submitAnswer, generateQuestions) changes the questions, the conversation
\* or currentQuestionIndex
C12_TerminalIsFinal ==
    [][Terminal
       => /\ Terminal'
          /\ Questions(st') = Questions(st)
          /\ Conversation(st') = Conversation(st)
          /\ st'.currentQuestionIndex = st.currentQuestionIndex]_vars

\* the fields of the store that hold session state (everything but the
\* error message and the busy flags)
SessionFields(s) ==
    <<s.sessionId, s.sessionState, s.phase, s.currentQuestionIndex,
      s.conversationHistory, s.questions, s.currentQuestion,
      s.streamedMedication, s.streamedMedicationEnglish,
      s.medicationRecommendations, s.medicationEnglish, s.isComplete>>

\* the phase of its session does not allow the operation of invocation r
WrongPhase(r) ==
    /\ r.sid \in 1..Len(sessions)
    /\ \/ /\ r.call \in {"stream", "complete"}
          /\ sessions[r.sid].phase # "generating-recommendation"
       \/ /\ r.call \in {"submit", "transcribe"}
          /\ sessions[r.sid].phase # "answering-questions"

\* C13: an operation called in a phase that does not allow it changes no
\* field of the session state, neither when it is called nor when its
\* rejection arrives, and it fails with InvalidPhaseTransition
C13_WrongPhaseUntouched ==
    [][\A o \in OpIds :
         /\ ( /\ ~InFlight(o) /\ ops'[o].pc = "req" /\ WrongPhase(ops'[o]) )
            => SessionFields(st') = SessionFields(st)
         /\ ( /\ ops[o].pc = "resp"
              /\ ops[o].resp.status = "InvalidPhaseTransition"
              /\ ops'[o].pc # "resp" )
            => /\ ops'[o].pc = "done"
               /\ ops'[o].outcome \in {"InvalidPhaseTransition", "error"}
               /\ SessionFields(st') = SessionFields(st)]_vars

\* the question the store presents
CurrentQuestionOf(s) ==
    IF version = "form"
    THEN QAt(s.sessionState.questions, s.currentQuestionIndex)
    ELSE s.currentQuestion

\* the step in which a submitAnswer invocation stores its accepted answer
CommitStep(o) ==
    /\ ops[o].kind \in {"submit", "submitAudio"}
    /\ ops[o].pc = "resp" /\ ops[o].call \in {"submit", "get", "transcribe"}
    /\ ops[o].accepted /\ ~Threw(ops[o].resp)
    /\ ops'[o] # ops[o]
    /\ ~(ops'[o].pc = "req" /\ ops'[o].call = "get")

\* the step takes the store to the recommendation
Completing(o) ==
    IF version = "form" THEN st'.phase = "diagnosis"
    ELSE ops'[o].pc = "req" /\ ops'[o].call \in {"stream", "complete"}

StoreDone == st.isComplete \/ st.phase = "prescription"

\* the session is done and completed by a stream that ended with its
\* sentinel
SessionCompleted ==
    /\ st.sessionId # 0
    /\ sessions[st.sessionId].phase = "done"
    /\ sessions[st.sessionId].status = "completed"
    /\ \E o \in OpIds : ops[o].term = "complete" /\ ops[o].sawDone

\* C15: with responsive collaborators and the answers given in order, the
\* answer to the last question, and no earlier one, is reported complete;
\* the store shows the consultation finished only once the recommendation
\* stream has ended with the session done and completed; and that
\* eventually happens
C15_EndToEnd ==
    /\ [](\A o \in OpIds :
            (ops[o].pc = "resp" /\ ops[o].call = "submit" /\ ops[o].accepted)
            => (ops[o].resp.is_complete
                  <=> ops[o].idx + 1 = Len(sessions[ops[o].sid].questions)))
    /\ [](StoreDone => SessionCompleted)
    /\ <>(StoreDone /\ SessionCompleted)

C15_Witness ==
    /\ StoreDone /\ SessionCompleted
    /\ Len(sessions[st.sessionId].questions) = 2
    /\ Len(sessions[st.sessionId].conversation) = 2

\* the recommendation text the store holds and the components display, and
\* its pivot-language paraphrase
Recommendation(s) ==
    IF version = "audio" THEN s.medicationRecommendations
    ELSE s.streamedMedication

RecommendationPivot(s) ==
    IF version = "audio" THEN s.medicationEnglish
    ELSE s.streamedMedicationEnglish

\* no invocation is in flight
Quiet == \A o \in OpIds : ~InFlight(o)

Completed ==
    st.sessionId # 0 /\ sessions[st.sessionId].status = "completed"

\* C16: outside a running call the store holds a recommendation text or a
\* paraphrase only if the completion succeeded (no partial value is left as
\* the recommendation), and once the completion has succeeded the two never
\* change
C16_RecommendationWrittenOnce ==
    [][/\ ( /\ Quiet'
            /\ \/ Recommendation(st') # <<>>
               \/ RecommendationPivot(st') # NullText )
          => Completed'
       /\ ( /\ Quiet /\ Completed /\ Recommendation(st) # <<>> )
          => /\ Recommendation(st') = Recommendation(st)
             /\ RecommendationPivot(st') = RecommendationPivot(st)]_vars

\* C17: when a recommendation stream fails after it has delivered chunks,
\* the partial text is discarded: the store's recommendation text is the
\* text it held before the stream, the store does not show the consultation
\* finished and the session is still active, waiting for its recommendation
C17_FailedStreamDiscarded ==
    [][\A o \in OpIds :
         ( /\ ops[o].call = "stream" /\ ops[o].pc = "streaming"
           /\ ops'[o].term = "error" )
         => /\ st'.streamedMedication = ops[o].pre
            /\ st'.isComplete = st.isComplete
            /\ st'.phase = st.phase
            /\ sessions'[ops[o].sid].status = "active"
            /\ sessions'[ops[o].sid].phase = "generating-recommendation"
            /\ sessions'[ops[o].sid].medication = NullText]_vars

\* C18: no session-creation request is issued and no session is allocated
\* for patient data outside the accepted domain: every creation request
\* carries an age within MIN_AGE..MAX_AGE, on every path that creates a
\* session
C18_CreationValidated ==
    \A o \in OpIds :
        (ops[o].call = "create" /\ ops[o].pc \in {"req", "resp"})
        => ValidPatient(ops[o].patient)

\* the initial complaint the store holds (that of its sessionState)
InitialComplaint(s) ==
    IF s.sessionState.present THEN s.sessionState.initial_complaint ELSE ""

\* C19: a processInitialSymptoms call that succeeds leaves the questions of
\* the response, currentQuestionIndex 0 and the complaint it was called with
\* as the initial complaint; the voice store never holds questions without
\* holding the complaint they were generated from
C19_QuestionsWithComplaint ==
    [][/\ \A o \in OpIds :
            ( /\ Resumed(o, "initSymptoms", "questions")
              /\ ~Threw(ops[o].resp)
              /\ ops'[o].pc = "done" )
            => /\ ops'[o].outcome = "ok"
               /\ st'.questions = ops[o].resp.questions
               /\ st'.currentQuestionIndex = 0
               /\ InitialComplaint(st') = ops[o].ans
       /\ (version = "voice" /\ st'.questions # <<>>)
          => InitialComplaint(st') \in Complaints]_vars

\* the guard of the store action that submits an answer
SubmitEnabled ==
    /\ st.sessionId # 0
    /\ IF version = "form" THEN st.sessionState.present
       ELSE Truthy(st.currentQuestion)

\* some store action that requests the recommendation can be called:
\* completeDiagnosis in the form store, and in the voice stores the submit
\* action, the only one that calls completeSession
CompleteReachable ==
    /\ st.sessionId # 0
    /\ version # "form" => Truthy(st.currentQuestion)

\* a finished invocation whose submit request failed in transport
FailedSubmit(o) ==
    /\ ops[o].pc = "done" /\ ops[o].netFailed
    /\ ops[o].kind \in {"submit", "submitAudio"}
    /\ ops[o].fresh /\ ~ops[o].accepted

\* a finished invocation whose completeSession request or stream failed,
\* on a session that waits for its recommendation
FailedComplete(o) ==
    /\ ops[o].pc = "done" /\ ops[o].netFailed
    /\ ops[o].sid \in 1..Len(sessions)
    /\ sessions[ops[o].sid].phase = "generating-recommendation"
    /\ \/ ops[o].term = "error"
       \/ /\ ops[o].kind = "submitAudio" /\ ops[o].accepted
          /\ ops[o].outcome = "NetworkError"
       \/ ops[o].kind = "complete" /\ ops[o].term = "none"

\* C20: after a submitAnswer or completeSession call failed in transport the
\* failure is shown as the error, the conversation and currentQuestionIndex
\* are those of before the call, the operation can be called again and the
\* session would accept it
C20_RetrySafe ==
    \A o \in OpIds :
        Quiet
        => /\ FailedSubmit(o)
              => /\ st.error # NoError
                 /\ Len(Conversation(st)) = ops[o].base
                 /\ st.currentQuestionIndex = ops[o].at
                 /\ SubmitEnabled
                 /\ SubmitVerdict(sessions[ops[o].sid],
                                  st.currentQuestionIndex) = "ok"
           /\ FailedComplete(o)
              => /\ st.error # NoError
                 /\ CompleteReachable
                 /\ CompleteVerdict(sessions[ops[o].sid]) = "ok"

\* the session the store is attached to
StoreSession == sessions[st.sessionId]

\* C21: every turn of the store's conversation pairs the session's question
\* at the turn's index with the text the session accepted at that index
C21_TurnsPaired ==
    st.sessionId # 0
    => \A i \in 1..Len(Conversation(st)) :
         /\ Conversation(st)[i].question = QAt(StoreSession.questions, i - 1)
         /\ i <= Len(StoreSession.conversation)
         /\ Conversation(st)[i].answer = StoreSession.conversation[i].answer

IsPrefix(a, b) == Len(a) <= Len(b) /\ SubSeq(b, 1, Len(a)) = a

Triggered(s, phase) ==
    /\ IndexOf(phase) >= IndexOf("questions") => s.sessionId # 0
    /\ IndexOf(phase) >= IndexOf("diagnosis")
       => sessions'[s.sessionId].phase
             \in {"generating-recommendation", "done"}
    /\ IndexOf(phase) >= IndexOf("prescription")
       => sessions'[s.sessionId].status = "completed"

\* C23: while the store stays with one session (or has none yet) a phase
\* change never goes back to an earlier phase of the order and never enters
\* a phase whose trigger has not occurred
C23_PhaseOrder ==
    [][( /\ version = "form"
         /\ st'.sessionId = st.sessionId \/ st.sessionId = 0
         /\ st'.phase # st.phase )
       => /\ IndexOf(st'.phase) > IndexOf(st.phase)
          /\ Triggered(st', st'.phase)]_vars

\* C24: a question-generation response with no question makes
\* processInitialSymptoms fail and leaves the questions and the question
\* presented as they were; a call that succeeds leaves a non-empty question
\* list and a question that can be answered
C24_ZeroQuestionsFail ==
    [][\A o \in OpIds :
         ( /\ Resumed(o, "initSymptoms", "questions")
           /\ ops'[o].pc = "done" )
         => /\ ( ~Threw(ops[o].resp) /\ ops[o].resp.questions = <<>> )
               => /\ ops'[o].outcome # "ok"
                  /\ st'.error # NoError
                  /\ st'.questions = st.questions
                  /\ st'.currentQuestion = st.currentQuestion
            /\ ops'[o].outcome = "ok"
               => /\ st'.questions # <<>>
                  /\ Truthy(st'.currentQuestion)]_vars

\* C25: when the reader has called its terminal callback, the chunk
\* notifications, the accumulated text and the side-channel value are those
\* of a reader that received every line in a read of its own, however the
\* transport cut the same characters into reads
C25_SegmentationIndependent ==
    (rd.pc = "returned" /\ rd.throws = "none" /\ rd.nError = 0)
    => LET ref == ReadEach([NoWire EXCEPT !.cb = rd.cb], rd.lines)
       IN /\ rd.chunks = ref.chunks
          /\ Concat(rd.chunks) = Concat(ref.chunks)
          /\ rd.english = ref.english
          /\ rd.nComplete = ref.nComplete

\* C26: when a call of the stream reader has returned, exactly one of
\* onComplete and onError has been invoked, exactly once, and no data
\* callback was invoked after it, whether or not a callback throws and
\* whatever follows the sentinel
C26_ExactlyOneTerminal ==
    rd.pc = "returned"
    => /\ rd.nComplete + rd.nError = 1
       /\ rd.late = 0

\* C27: whenever no store action is running, the store's
\* currentQuestionIndex is the session's index and its conversation has as
\* many turns as the session has accepted answers
C27_ClientInStep ==
    (Quiet /\ st.sessionId # 0)
    => /\ st.currentQuestionIndex = StoreSession.current_question_index
       /\ Len(Conversation(st)) = Len(StoreSession.conversation)

\* C28: a reset leaves every field of the store at its initial value, in
\* each version of the store
C28_ResetToInitial ==
    [][reset => st' = initialStore]_vars

\* C29: once the store was reset while an invocation was awaiting a
\* collaborator, no later step of that invocation (continuation or stream
\* callback) changes the session id, the phase, the conversation, the
\* recommendation text or the completion flag
C29_NothingAfterReset ==
    [][\A o \in OpIds :
         (ops[o].stale /\ ops'[o] # ops[o])
         => /\ st'.sessionId = st.sessionId
            /\ st'.phase = st.phase
            /\ Conversation(st') = Conversation(st)
            /\ Recommendation(st') = Recommendation(st)
            /\ st'.isComplete = st.isComplete]_vars

\* C30: when every request is answered, a store action that was started
\* leads to a state in which no action is running and isLoading,
\* isProcessing and isStreaming are all false
C30_BusyFlagsCleared ==
    (\E o \in OpIds : InFlight(o))
        ~> (Quiet /\ ~st.isLoading /\ ~st.isProcessing /\ ~st.isStreaming)

====
